---- MODULE Spec2Model ----
(***************************************************************************)
(* A model of server.js: the express application that serves the "apps"   *)
(* catalogue.  The state is the session store, the apps table of the      *)
(* PostgreSQL store (with its id sequence), the queries the handlers have *)
(* handed to the pool and that the store has not executed yet, and the    *)
(* outcome of the most recent handler step.                               *)
(*                                                                         *)
(* A handler runs to its await in one step: the gate, the handler's start *)
(* and pool.query happen together.  The store then executes the query as  *)
(* one step (a statement is atomic), in which the handler resumes and     *)
(* answers.  The startup CREATE TABLE is such a query too: it is handed   *)
(* to the pool at module load and nothing waits for it.  The store        *)
(* rejects a query when the relation is missing, when a parameter is not  *)
(* of the column's type and when a NOT NULL column would be null.         *)
(***************************************************************************)
EXTENDS Integers, Sequences, FiniteSets, TLC

\* ------------------------------------------------------------------ bounds
MaxSerial   == 2    \* values the id sequence may hand out
MaxClock    == 1    \* ticks of the clock
MaxInflight == 1    \* queries handed to the pool and not executed yet
MaxFetches  == 2    \* outbound health requests not answered yet

\* --------------------------------------------------------------- constants
NULL == "NULL"                  \* JS undefined / SQL NULL
ADMIN_USERNAME == "admin"
ADMIN_PASSWORD == "s3cret"
Sessions == {"s1", "s2"}
NoSession == "-"                \* in the outcome of a step that reads no session

\* What a client may send as username and as password (NULL: field absent).
Usernames == {ADMIN_USERNAME, "wrong", NULL}
Passwords == {ADMIN_PASSWORD, "wrong", NULL}

\* An Accept header is a string, written as the sequence of its pieces
\* ("application/json" is one piece), or absent: NoHeader stands for undefined.
NoHeader == <<"-">>
JsonType == <<"application/json">>
AcceptHeaders ==
    { NoHeader,
      <<>>,
      <<"text/html">>,
      <<"application/json">>,
      <<"text/html", ",", "application/json">> }

\* Request bodies of create and update.
Payloads ==
    { [title |-> "Wiki", url |-> "http://wiki", image |-> NULL,      healthpath |-> "/health"],
      [title |-> "Git",  url |-> "http://git",  image |-> "git.png", healthpath |-> NULL],
      [title |-> NULL,   url |-> "http://x",    image |-> NULL,      healthpath |-> NULL] }
NoBody == [title |-> NULL, url |-> NULL, image |-> NULL, healthpath |-> NULL]

\* The :id path parameter is a string, written as the sequence of its characters.
Digits == <<"0", "1", "2", "3", "4", "5", "6", "7", "8", "9">>
NoParam == <<>>
PathIds == { <<"1">>, <<"0", "2">>, <<"a", "b", "c">> }

NoRow == [id |-> 0, title |-> NULL, url |-> NULL, image |-> NULL,
          healthpath |-> NULL, created_at |-> 0]

VARIABLES
    sessionStore,   \* session -> [authenticated, user]
    tableInit,      \* the startup CREATE TABLE promise: "pending", "ready", "failed"
    tableExists,    \* whether relation apps exists in the store
    apps,           \* the rows of table apps
    serial,         \* last value handed out by the id sequence
    clock,          \* current time
    inflight,       \* queries handed to the pool, not executed yet
    last,           \* outcome of the most recent handler step
    returned,       \* history: the ids returned by successful creates, in order
    history,        \* history: session -> its last 200 login or logout ("none", "login", "logout")
    fresh,          \* history: what each successful create was called with and returned,
                    \*          for the rows not updated or deleted since
    fetches         \* outbound health requests not answered yet

vars == <<sessionStore, tableInit, tableExists, apps, serial, clock, inflight,
          last, returned, history, fresh, fetches>>

\* ------------------------------------------------------------ pure helpers

\* Mutant of Includes: a startsWith in place of includes.
IncludesAtStart(s, pat) ==
    Len(s) >= Len(pat) /\ \A j \in 1..Len(pat) : s[j] = pat[j]

\* String.prototype.includes: pat occurs in s as a contiguous run.
Includes(s, pat) ==
    \E i \in 0..(Len(s) - Len(pat)) :
        \A j \in 1..Len(pat) : s[i + j] = pat[j]

DigitVal(c) == CHOOSE n \in 0..9 : Digits[n + 1] = c
IsDigit(c) == \E n \in 0..9 : Digits[n + 1] = c

RECURSIVE DecimalValue(_)
DecimalValue(s) ==
    IF s = <<>> THEN 0
    ELSE 10 * DecimalValue(SubSeq(s, 1, Len(s) - 1)) + DigitVal(s[Len(s)])

\* The store's reading of a text parameter compared with the integer column id:
\* a run of digits is its decimal value, anything else is an input error (-1).
BadInteger == -1
ParseId(s) ==
    IF s # <<>> /\ \A i \in 1..Len(s) : IsDigit(s[i]) THEN DecimalValue(s) ELSE BadInteger

\* In an outcome: what the outbound request ended with (a status otherwise).
NoAnswer == [status |-> 0, body |-> NULL]
TransportError == [status |-> -1, body |-> NULL]

\* The session a request gets when the store holds none for it.
FreshSession == [authenticated |-> FALSE, user |-> NULL]

\* The outcome record of a handler step.
Outcome(op, s, status) ==
    [op |-> op, sess |-> s, status |-> status, ran |-> TRUE, accept |-> NoHeader,
     location |-> NULL, id |-> NoParam, body |-> NoBody, row |-> NoRow,
     rows |-> <<>>, called |-> 0, gateAuth |-> FALSE, error |-> NULL,
     username |-> NULL, password |-> NULL, url |-> NULL, fetched |-> FALSE,
     upstream |-> NoAnswer, text |-> NULL]

\* A query handed to the pool.
Query(op, id, body, auth) ==
    [op |-> op, id |-> id, body |-> body, gateAuth |-> auth,
     called |-> IF op = "create" THEN clock ELSE 0]

\* ------------------------------------------------------------------- Init
Init ==
    /\ sessionStore = [s \in Sessions |-> FreshSession]
    /\ tableInit = "pending"
    /\ tableExists = FALSE
    /\ apps = {}
    /\ serial = 0
    /\ clock = 0
    /\ inflight = {}
    /\ last = Outcome("none", NoSession, 0)
    /\ returned = <<>>
    /\ history = [s \in Sessions |-> "none"]
    /\ fresh = {}
    /\ fetches = {}

\* ---------------------------------------------------------------- startup

\* CREATE TABLE IF NOT EXISTS resolves.
CreateTableDone ==
    /\ tableInit = "pending"
    /\ tableInit' = "ready"
    /\ tableExists' = TRUE
    /\ UNCHANGED <<sessionStore, apps, serial, clock, inflight, last, returned,
                   history, fresh, fetches>>

\* CREATE TABLE IF NOT EXISTS rejects: the error is logged and nothing else happens.
CreateTableFailed ==
    /\ tableInit = "pending"
    /\ tableInit' = "failed"
    /\ UNCHANGED <<sessionStore, tableExists, apps, serial, clock, inflight, last,
                   returned, history, fresh, fetches>>

Tick ==
    /\ clock < MaxClock
    /\ clock' = clock + 1
    /\ UNCHANGED <<sessionStore, tableInit, tableExists, apps, serial, inflight, last,
                   returned, history, fresh, fetches>>

\* -------------------------------------------------------------- auth gate

\* Mutant of isAuthenticated: the session is tested, its authenticated flag is not.
isAuthenticatedAnySession(sess, accept) ==
    IF sess \in [authenticated : BOOLEAN, user : {NULL, ADMIN_USERNAME}] THEN "next"
    ELSE IF accept # NoHeader /\ accept # <<>> /\ Includes(accept, JsonType) THEN "401"
    ELSE "redirect"

\* isAuthenticated: "next", or the response it sends itself.
isAuthenticated(sess, accept) ==
    IF sess.authenticated THEN "next"
    ELSE IF accept # NoHeader /\ accept # <<>> /\ Includes(accept, JsonType) THEN "401"
    ELSE "redirect"

\* The response of the gate when it does not call next().
GateReject(op, s, accept) ==
    IF isAuthenticated(sessionStore[s], accept) = "401"
    THEN [Outcome(op, s, 401) EXCEPT !.ran = FALSE, !.accept = accept,
                                     !.error = "Yetkisiz erisim"]
    ELSE [Outcome(op, s, 302) EXCEPT !.ran = FALSE, !.accept = accept,
                                     !.location = "/login"]

\* A handler that hands one query to the pool and awaits it.
IssueQuery(op, s, accept, id, body) ==
    /\ Cardinality(inflight) < MaxInflight
    /\ inflight' = inflight \cup {Query(op, id, body, sessionStore[s].authenticated)}
    /\ last' = [Outcome(op, s, 0) EXCEPT !.gateAuth = sessionStore[s].authenticated]

\* A route behind isAuthenticated whose handler hands a query to the pool.
GuardedQuery(op, s, accept, id, body) ==
    /\ IF isAuthenticated(sessionStore[s], accept) = "next"
       THEN IssueQuery(op, s, accept, id, body)
       ELSE /\ last' = GateReject(op, s, accept)
            /\ UNCHANGED inflight
    /\ UNCHANGED <<sessionStore, tableInit, tableExists, apps, serial, clock,
                   returned, history, fresh, fetches>>

\* ----------------------------------------------------------------- routes

\* GET /api/apps
ListApps(s, accept) ==
    /\ IssueQuery("list", s, accept, NoParam, NoBody)
    /\ UNCHANGED <<sessionStore, tableInit, tableExists, apps, serial, clock,
                   returned, history, fresh, fetches>>

\* POST /api/apps
CreateApp(s, accept, body) ==
    /\ serial + Cardinality({q \in inflight : q.op = "create"}) < MaxSerial
    /\ GuardedQuery("create", s, accept, NoParam, body)

\* PUT /api/apps/:id
UpdateApp(s, accept, id, body) == GuardedQuery("update", s, accept, id, body)

\* DELETE /api/apps/:id
DeleteApp(s, accept, id) == GuardedQuery("delete", s, accept, id, NoBody)

\* GET /admin
Admin(s, accept) ==
    /\ last' = IF isAuthenticated(sessionStore[s], accept) = "next"
               THEN [Outcome("admin", s, 200) EXCEPT !.gateAuth = TRUE]
               ELSE GateReject("admin", s, accept)
    /\ UNCHANGED <<sessionStore, tableInit, tableExists, apps, serial, clock, inflight,
                   returned, history, fresh, fetches>>

\* Mutant of Login: the username is stored in the session before it is compared.
LoginStoresUserFirst(s, username, password) ==
    /\ IF username = ADMIN_USERNAME /\ password = ADMIN_PASSWORD
       THEN /\ sessionStore' = [sessionStore EXCEPT
                                   ![s] = [authenticated |-> TRUE, user |-> username]]
            /\ last' = [Outcome("login", s, 200) EXCEPT !.username = username,
                                                        !.password = password]
            /\ history' = [history EXCEPT ![s] = "login"]
       ELSE /\ sessionStore' = [sessionStore EXCEPT ![s].user = username]
            /\ last' = [Outcome("login", s, 401) EXCEPT !.username = username,
                                                        !.password = password,
                                                        !.error = "Gecersiz kimlik bilgileri"]
            /\ UNCHANGED history
    /\ UNCHANGED <<tableInit, tableExists, apps, serial, clock, inflight, returned,
                   fresh, fetches>>

\* POST /login
Login(s, username, password) ==
    /\ IF username = ADMIN_USERNAME /\ password = ADMIN_PASSWORD
       THEN /\ sessionStore' = [sessionStore EXCEPT
                                   ![s] = [authenticated |-> TRUE, user |-> username]]
            /\ last' = [Outcome("login", s, 200) EXCEPT !.username = username,
                                                        !.password = password]
            /\ history' = [history EXCEPT ![s] = "login"]
       ELSE /\ last' = [Outcome("login", s, 401) EXCEPT !.username = username,
                                                        !.password = password,
                                                        !.error = "Gecersiz kimlik bilgileri"]
            /\ UNCHANGED <<sessionStore, history>>
    /\ UNCHANGED <<tableInit, tableExists, apps, serial, clock, inflight, returned,
                   fresh, fetches>>

\* Mutant of Logout: the answer is sent and the session is not destroyed.
LogoutKeepsSession(s) ==
    /\ last' = Outcome("logout", s, 200)
    /\ history' = [history EXCEPT ![s] = "logout"]
    /\ UNCHANGED <<sessionStore, tableInit, tableExists, apps, serial, clock, inflight,
                   returned, fresh, fetches>>

\* GET /logout: the session is destroyed in the (in-memory) session store.
Logout(s) ==
    /\ sessionStore' = [sessionStore EXCEPT ![s] = FreshSession]
    /\ last' = Outcome("logout", s, 200)
    /\ history' = [history EXCEPT ![s] = "logout"]
    /\ UNCHANGED <<tableInit, tableExists, apps, serial, clock, inflight, returned,
                   fresh, fetches>>

\* GET /login and GET /api/config: no state is read or written.
Public(s, op) ==
    /\ op \in {"loginPage", "config"}
    /\ last' = Outcome(op, s, 200)
    /\ UNCHANGED <<sessionStore, tableInit, tableExists, apps, serial, clock, inflight,
                   returned, history, fresh, fetches>>

\* ------------------------------------------------------------------ store

\* Mutant of RowOf: image and healthpath are bound to each other's parameter.
RowOfSwapped(id, body, at) ==
    [id |-> id, title |-> body.title, url |-> body.url, image |-> body.healthpath,
     healthpath |-> body.image, created_at |-> at]

\* A row of table apps.
RowOf(id, body, at) ==
    [id |-> id, title |-> body.title, url |-> body.url, image |-> body.image,
     healthpath |-> body.healthpath, created_at |-> at]

\* title TEXT NOT NULL, url TEXT NOT NULL
ViolatesNotNull(body) == body.title = NULL \/ body.url = NULL

RowsWithId(n) == {r \in apps : r.id = n}

\* The orders SELECT * FROM apps ORDER BY created_at DESC may return the rows in.
NewestFirst(rows) ==
    { f \in [1..Cardinality(rows) -> rows] :
        /\ \A i, j \in 1..Cardinality(rows) : i # j => f[i] # f[j]
        /\ \A i, j \in 1..Cardinality(rows) : i < j => f[i].created_at >= f[j].created_at }

\* The query fails in the store and the handler's catch answers 500.
QueryError(q, message) ==
    /\ last' = [Outcome(q.op, NoSession, 500) EXCEPT !.id = q.id, !.gateAuth = q.gateAuth,
                                               !.error = message]
    /\ UNCHANGED <<apps, returned, fresh>>

Answer(q, status) ==
    [Outcome(q.op, NoSession, status) EXCEPT !.id = q.id, !.gateAuth = q.gateAuth]

\* SELECT * FROM apps ORDER BY created_at DESC
SelectApps(q) ==
    /\ \E rows \in NewestFirst(apps) : last' = [Answer(q, 200) EXCEPT !.rows = rows]
    /\ UNCHANGED <<apps, serial, returned, fresh>>

\* Mutant of NextId: one more than the largest id in the table.
NextIdFromRows ==
    IF apps = {} THEN 1 ELSE (CHOOSE n \in {r.id : r \in apps} : \A r \in apps : r.id <= n) + 1

\* id SERIAL: the default of column id is the next value of the sequence.
NextId == serial + 1

\* INSERT INTO apps (title, url, image, healthpath) VALUES (...) RETURNING *
InsertApp(q) ==
    /\ serial' = serial + 1
    /\ IF ViolatesNotNull(q.body)
       THEN QueryError(q, "null value violates not-null constraint")
       ELSE LET row == RowOf(NextId, q.body, clock) IN
            /\ apps' = apps \cup {row}
            /\ last' = [Answer(q, 200) EXCEPT !.row = row, !.called = q.called]
            /\ returned' = Append(returned, row.id)
            /\ fresh' = fresh \cup {[id |-> row.id, body |-> q.body, called |-> q.called]}

\* UPDATE apps SET title = $1, url = $2, image = $3, healthpath = $4 WHERE id = $5 RETURNING *
UpdateRow(q) ==
    /\ UNCHANGED serial
    /\ IF ParseId(q.id) = BadInteger
       THEN QueryError(q, "invalid input syntax for type integer")
       ELSE IF RowsWithId(ParseId(q.id)) = {}
       THEN /\ last' = [Answer(q, 404) EXCEPT !.error = "Uygulama bulunamadi"]
            /\ UNCHANGED <<apps, returned, fresh>>
       ELSE IF ViolatesNotNull(q.body)
       THEN QueryError(q, "null value violates not-null constraint")
       ELSE LET old == CHOOSE r \in apps : r.id = ParseId(q.id)
                row == RowOf(old.id, q.body, old.created_at) IN
            /\ apps' = (apps \ {old}) \cup {row}
            /\ last' = [Answer(q, 200) EXCEPT !.row = row]
            /\ fresh' = {f \in fresh : f.id # old.id}
            /\ UNCHANGED returned

\* DELETE FROM apps WHERE id = $1 RETURNING *
DeleteRow(q) ==
    /\ UNCHANGED serial
    /\ IF ParseId(q.id) = BadInteger
       THEN QueryError(q, "invalid input syntax for type integer")
       ELSE IF RowsWithId(ParseId(q.id)) = {}
       THEN /\ last' = [Answer(q, 404) EXCEPT !.error = "Uygulama bulunamadi"]
            /\ UNCHANGED <<apps, returned, fresh>>
       ELSE LET old == CHOOSE r \in apps : r.id = ParseId(q.id) IN
            /\ apps' = apps \ {old}
            /\ last' = [Answer(q, 200) EXCEPT !.row = old]
            /\ fresh' = {f \in fresh : f.id # old.id}
            /\ UNCHANGED returned

\* The store executes a query handed to the pool, and the awaiting handler answers.
QueryDone(q) ==
    /\ q \in inflight
    /\ inflight' = inflight \ {q}
    /\ IF ~tableExists
       THEN QueryError(q, "relation apps does not exist") /\ UNCHANGED serial
       ELSE CASE q.op = "list"   -> SelectApps(q)
              [] q.op = "create" -> InsertApp(q)
              [] q.op = "update" -> UpdateRow(q)
              [] q.op = "delete" -> DeleteRow(q)
    /\ UNCHANGED <<sessionStore, tableInit, tableExists, clock, history, fetches>>

\* ----------------------------------------------------------- health proxy

\* The url query parameter: absent, empty, not an absolute URL, or a target.
Targets == {"http://up", "http://down"}
Urls == {NULL, "", "not-a-url"} \cup Targets

\* What a responder may answer with.
Statuses == {200, 204, 404, 503}
TargetBody == "target body"

\* res.sendStatus: the body is the status text.
StatusText(status) ==
    CASE status = 200 -> "OK"
      [] status = 204 -> "No Content"
      [] status = 404 -> "Not Found"
      [] status = 503 -> "Service Unavailable"
      [] OTHER -> "status"

\* GET /proxy-health
ProxyHealth(s, url) ==
    /\ IF url = NULL \/ url = ""
       THEN /\ last' = [Outcome("proxy", s, 400) EXCEPT !.url = url,
                           !.error = "Health URL belirtilmedi"]
            /\ UNCHANGED fetches
       ELSE /\ Cardinality(fetches) < MaxFetches
            /\ fetches' = fetches \cup {[sess |-> s, url |-> url]}
            /\ last' = [Outcome("proxy", s, 0) EXCEPT !.url = url, !.fetched = TRUE]
    /\ UNCHANGED <<sessionStore, tableInit, tableExists, apps, serial, clock, inflight,
                   returned, history, fresh>>

\* Mutant of FetchAnswered: any answer of the responder counts as healthy.
FetchAnsweredAlwaysOk(f, status, body) ==
    /\ f \in fetches
    /\ f.url = "http://up"
    /\ fetches' = fetches \ {f}
    /\ last' = [Outcome("proxy", f.sess, 200) EXCEPT !.url = f.url, !.fetched = TRUE,
                   !.upstream = [status |-> status, body |-> body],
                   !.text = StatusText(200)]
    /\ UNCHANGED <<sessionStore, tableInit, tableExists, apps, serial, clock, inflight,
                   returned, history, fresh>>

\* The responder answers: only its status is passed on.
FetchAnswered(f, status, body) ==
    /\ f \in fetches
    /\ f.url = "http://up"
    /\ fetches' = fetches \ {f}
    /\ last' = [Outcome("proxy", f.sess, status) EXCEPT !.url = f.url, !.fetched = TRUE,
                   !.upstream = [status |-> status, body |-> body],
                   !.text = StatusText(status)]
    /\ UNCHANGED <<sessionStore, tableInit, tableExists, apps, serial, clock, inflight,
                   returned, history, fresh>>

\* fetch rejects: the URL is not absolute, or the transport failed.
FetchFailed(f) ==
    /\ f \in fetches
    /\ fetches' = fetches \ {f}
    /\ last' = [Outcome("proxy", f.sess, 500) EXCEPT !.url = f.url, !.fetched = TRUE,
                   !.upstream = TransportError, !.error = "Health check basarisiz"]
    /\ UNCHANGED <<sessionStore, tableInit, tableExists, apps, serial, clock, inflight,
                   returned, history, fresh>>

\* ---------------------------------------------------------- specifications

JsonOnly == {<<"application/json">>}
JsonOrNone == {NoHeader, <<"application/json">>}
LoginPairs == {<<ADMIN_USERNAME, ADMIN_PASSWORD>>, <<ADMIN_USERNAME, "wrong">>}
CreateBodies == {b \in Payloads : b.title # "Git"}
UpdateBodies == {b \in Payloads : b.title # "Wiki"}
OneBody == {b \in Payloads : b.title = "Wiki"}
OneId == {<<"1">>}

\* The routes that reach the store, with every request body and path id, called
\* by one session that may log in and out.
Next ==
    \/ CreateTableDone
    \/ CreateTableFailed
    \/ Tick
    \/ \E accept \in JsonOnly : ListApps("s1", accept)
    \/ \E accept \in JsonOnly, body \in CreateBodies : CreateApp("s1", accept, body)
    \/ \E accept \in JsonOnly, id \in PathIds, body \in UpdateBodies :
          UpdateApp("s1", accept, id, body)
    \/ \E accept \in JsonOnly, id \in PathIds : DeleteApp("s1", accept, id)
    \/ \E c \in LoginPairs : Login("s1", c[1], c[2])
    \/ Logout("s1")
    \/ \E q \in inflight : QueryDone(q)

Spec == Init /\ [][Next]_vars

\* Every route, called by two sessions with every login body, with or without
\* Accept: application/json, one request body and one path id.  The clock stands
\* still: nothing checked of the sessions reads a time.
NextSessions ==
    \/ CreateTableDone
    \/ CreateTableFailed
    \/ \E s \in Sessions, accept \in JsonOrNone : ListApps(s, accept)
    \/ \E s \in Sessions, accept \in JsonOrNone, body \in OneBody : CreateApp(s, accept, body)
    \/ \E s \in Sessions, accept \in JsonOrNone, id \in OneId, body \in OneBody :
          UpdateApp(s, accept, id, body)
    \/ \E s \in Sessions, accept \in JsonOrNone, id \in OneId : DeleteApp(s, accept, id)
    \/ \E s \in Sessions, accept \in JsonOrNone : Admin(s, accept)
    \/ \E s \in Sessions, u \in Usernames, p \in Passwords : Login(s, u, p)
    \/ \E s \in Sessions : Logout(s)
    \/ \E s \in Sessions, op \in {"loginPage", "config"} : Public(s, op)
    \/ \E q \in inflight : QueryDone(q)

SpecSessions == Init /\ [][NextSessions]_vars

\* The guarded routes called by one session with every Accept header.
NextGate ==
    \/ CreateTableDone
    \/ CreateTableFailed
    \/ \E accept \in AcceptHeaders, body \in OneBody : CreateApp("s1", accept, body)
    \/ \E accept \in AcceptHeaders, id \in OneId, body \in OneBody :
          UpdateApp("s1", accept, id, body)
    \/ \E accept \in AcceptHeaders, id \in OneId : DeleteApp("s1", accept, id)
    \/ \E accept \in AcceptHeaders : Admin("s1", accept)
    \/ \E c \in LoginPairs : Login("s1", c[1], c[2])
    \/ Logout("s1")
    \/ \E q \in inflight : QueryDone(q)

SpecGate == Init /\ [][NextGate]_vars

\* The health proxy shares no state with the rest: it is checked on its own.
NextProxy ==
    \/ \E s \in Sessions, url \in Urls : ProxyHealth(s, url)
    \/ \E f \in fetches, status \in Statuses : FetchAnswered(f, status, TargetBody)
    \/ \E f \in fetches : FetchFailed(f)

SpecProxy == Init /\ [][NextProxy]_vars

\* ----------------------------------------------------------------- claims

MutatingOps == {"create", "update", "delete"}
GuardedOps == MutatingOps \cup {"admin"}

\* The outcome of the gate's step on a guarded route (an awaited query's answer
\* names no session).
GateOutcome(o) == o.op \in GuardedOps /\ o.sess \in Sessions

\* The answer to an awaited query.
QueryAnswer(o, op) == o.op = op /\ o.sess = NoSession

\* An Accept header that names the media type application/json.
DeclaresJson(h) == h # NoHeader /\ \E i \in 1..Len(h) : h[i] = "application/json"

\* C1: the apps table changes only when the store executes a create, update or
\* delete whose session was authenticated when the request passed the gate; no
\* query of a mutating route is ever in flight for a request that passed the gate
\* unauthenticated; the list route is never answered by the gate.
C1_OnlyAuthenticatedRequestsChangeApps ==
    /\ [][apps' # apps =>
            \E q \in inflight : q.op \in MutatingOps /\ q.gateAuth /\ QueryDone(q)]_vars
    /\ [](\A q \in inflight : q.op \in MutatingOps => q.gateAuth)
    /\ [](last.op = "list" => last.ran /\ last.status \in {0, 200, 500})

\* C1 witness: a create changed the table after its session (every session) had
\* logged out again.
C1_Witness ==
    /\ QueryAnswer(last, "create") /\ last.status = 200 /\ last.gateAuth
    /\ last.row \in apps
    /\ \A s \in Sessions : ~sessionStore[s].authenticated

\* C2: a login answers 200 exactly for the configured pair and 401 otherwise; a
\* guarded request of a session whose last successful login was not followed by a
\* logout passes the gate; one of a session that logged out since is answered by
\* the gate with 401 or a redirect.
C2_LoginThenLogout ==
    /\ last.op = "login" =>
          last.status = (IF last.username = ADMIN_USERNAME /\ last.password = ADMIN_PASSWORD
                         THEN 200 ELSE 401)
    /\ GateOutcome(last) /\ history[last.sess] = "login" =>
          last.ran /\ last.status \in {0, 200}
    /\ GateOutcome(last) /\ history[last.sess] = "logout" =>
          ~last.ran /\ last.status \in {401, 302}

\* C2 witness: a guarded request rejected for a session that had logged in and out.
C2_Witness ==
    /\ GateOutcome(last) /\ history[last.sess] = "logout"
    /\ ~last.ran /\ last.status = 401

\* C3: for a session with no successful login so far, the gate answers a guarded
\* route itself: 401 with an error body when the Accept header names
\* application/json, a redirect to /login otherwise; the handler does not run.
C3_UnauthenticatedGate ==
    GateOutcome(last) /\ history[last.sess] = "none" =>
        /\ ~last.ran
        /\ IF DeclaresJson(last.accept)
           THEN last.status = 401 /\ last.error # NULL /\ last.location = NULL
           ELSE last.status = 302 /\ last.location = "/login"

\* C3 witness: 401 for a header that lists application/json after another type.
C3_Witness ==
    /\ GateOutcome(last) /\ history[last.sess] = "none"
    /\ last.op = "delete" /\ last.status = 401
    /\ last.accept = <<"text/html", ",", "application/json">>

\* C4 as stated, of a table that exists: a delete whose id matches no row answers
\* 404 and leaves the table as it was; one whose id matches a row answers 200 with
\* that row and removes exactly it (so that a second delete of it answers 404).
C4_DeleteAsStated ==
    [][\A q \in inflight : q.op = "delete" /\ tableExists /\ QueryDone(q) =>
          IF RowsWithId(ParseId(q.id)) = {}
          THEN last'.status = 404 /\ apps' = apps
          ELSE /\ last'.status = 200
               /\ last'.row \in RowsWithId(ParseId(q.id))
               /\ apps' = apps \ {last'.row}]_vars

\* C5: the ids returned by successful creates are strictly increasing in the order
\* they are returned, and no two rows share an id.
C5_IdsIncrease ==
    /\ \A i, j \in 1..Len(returned) : i < j => returned[i] < returned[j]
    /\ \A r1, r2 \in apps : r1.id = r2.id => r1 = r2
    /\ QueryAnswer(last, "create") /\ last.status = 200 =>
          Len(returned) > 0 /\ last.row.id = returned[Len(returned)]

\* C5 witness: two creates succeeded and the earlier row was deleted before the
\* later one was created.
C5_Witness ==
    /\ Len(returned) = 2
    /\ QueryAnswer(last, "create") /\ last.status = 200
    /\ apps = {last.row}

\* C6: a list answered 200 holds, for every create that succeeded and whose row
\* was not updated or deleted since, an entry with the id the create returned,
\* the four field values it was called with, and a created_at no earlier than
\* the time it was called.
C6_CreateThenList ==
    QueryAnswer(last, "list") /\ last.status = 200 =>
        \A f \in fresh : \E i \in 1..Len(last.rows) :
            /\ last.rows[i].id = f.id
            /\ last.rows[i].title = f.body.title
            /\ last.rows[i].url = f.body.url
            /\ last.rows[i].image = f.body.image
            /\ last.rows[i].healthpath = f.body.healthpath
            /\ last.rows[i].created_at >= f.called

\* C6 witness: a list that holds a row created after the clock had moved on from
\* the time the create was called.
C6_Witness ==
    /\ QueryAnswer(last, "list") /\ last.status = 200
    /\ \E f \in fresh : \E i \in 1..Len(last.rows) :
          last.rows[i].id = f.id /\ last.rows[i].created_at > f.called

C8_SessionTransitions ==
    /\ [][\A s \in Sessions :
            sessionStore'[s] # sessionStore[s] =>
               \/ /\ ~sessionStore[s].authenticated /\ sessionStore'[s].authenticated
                  /\ last'.op = "login" /\ last'.sess = s /\ last'.status = 200
                  /\ last'.username = ADMIN_USERNAME /\ last'.password = ADMIN_PASSWORD
               \/ /\ sessionStore[s].authenticated /\ ~sessionStore'[s].authenticated
                  /\ last'.op = "logout" /\ last'.sess = s]_vars
    /\ [][last'.op = "login" /\ last'.status = 401 => sessionStore' = sessionStore]_vars

\* C8 witness: a login answered 401 in a session that was, and still is,
\* authenticated, while the other session is not.
C8_Witness ==
    /\ last.op = "login" /\ last.status = 401
    /\ sessionStore[last.sess].authenticated
    /\ \E s \in Sessions : ~sessionStore[s].authenticated

\* C9 as stated, of a table that exists: an update whose id matches no row answers
\* 404 and leaves every row as it was; one whose id matches a row answers 200 with
\* the updated row, which keeps id and created_at and takes the four fields of the
\* body, and no other row changes.
C9_UpdateAsStated ==
    [][\A q \in inflight : q.op = "update" /\ tableExists /\ QueryDone(q) =>
          IF RowsWithId(ParseId(q.id)) = {}
          THEN last'.status = 404 /\ apps' = apps
          ELSE \E old \in RowsWithId(ParseId(q.id)) :
                  /\ last'.status = 200
                  /\ last'.row = RowOf(old.id, q.body, old.created_at)
                  /\ apps' = (apps \ {old}) \cup {last'.row}]_vars

\* C10 as stated: the store executes a query of a request handler only after the
\* startup CREATE TABLE has completed, and no handler hands a query to the pool
\* after it failed.
C10_TableReadyAsStated ==
    [][/\ (\E q \in inflight : QueryDone(q)) => tableInit = "ready" /\ tableExists
       /\ tableInit = "failed" => inflight' \subseteq inflight]_vars

====
